---- MODULE Spec2Model ----
(***************************************************************************)
(* PIVX address codec (ts_src/pivx/address.ts): Base58Check decode ->      *)
(* prefix matcher -> hash-length validation, payload assembly -> encode,   *)
(* and the projection of a decoded address onto its output script.         *)
(*                                                                         *)
(* Bytes are the integers 0..255, a Uint8Array is a sequence of bytes, a   *)
(* string is a sequence of one-character strings.  Every function of the   *)
(* module is an operator that yields an outcome: what it returned or what  *)
(* it threw, and the trace of the steps it took, in program order.         *)
(***************************************************************************)
EXTENDS Integers, Sequences, FiniteSets, TLC

VARIABLES network, pc, call, outcome

vars == <<network, pc, call, outcome>>

(***************************************************************************)
(* Outcomes of a call.                                                     *)
(***************************************************************************)
NoError == [name |-> "none", text |-> "", detail |-> <<>>]

Error(text, detail) == [name |-> "Error", text |-> text, detail |-> detail]

Return(v, tr) == [ok |-> TRUE, value |-> v, error |-> NoError, trace |-> tr]

Throw(e, tr) == [ok |-> FALSE, value |-> <<>>, error |-> e, trace |-> tr]

(***************************************************************************)
(* JavaScript primitives the module uses.                                  *)
(***************************************************************************)
Min(a, b) == IF a < b THEN a ELSE b

Max(a, b) == IF a > b THEN a ELSE b

\* Uint8Array.prototype.slice(start, end) for 0 <= start: both ends are
\* clamped to the length, an empty range gives an empty array.
slice(a, start, end) ==
  LET s == Min(start, Len(a))
      e == Min(end, Len(a))
  IN  IF e <= s THEN <<>> ELSE [i \in 1..(e - s) |-> a[s + i]]

DigitChars == <<"0", "1", "2", "3", "4", "5", "6", "7", "8", "9",
                "a", "b", "c", "d", "e", "f">>

RECURSIVE toStringRadix(_, _)
\* Number.prototype.toString(radix) of a non-negative integer.
toStringRadix(n, radix) ==
  IF n < radix THEN <<DigitChars[n + 1]>>
  ELSE Append(toStringRadix(n \div radix, radix), DigitChars[(n % radix) + 1])

RECURSIVE padStart(_, _, _)
\* String.prototype.padStart(width, fill) with a one-character fill.
padStart(s, width, fill) ==
  IF Len(s) >= width THEN s ELSE padStart(<<fill>> \o s, width, fill)

(***************************************************************************)
(* Version prefixes: number | number[] (types.ts).  The run-time type is   *)
(* the tag; a number keeps its value as the one element of bytes.          *)
(***************************************************************************)
Num(n) == [kind |-> "number", bytes |-> <<n>>]

Arr(s) == [kind |-> "array", bytes |-> s]

IsNumber(v) == v.kind = "number"

IsArray(v) == v.kind = "array"

\* networks: the PIVX main network, pivxPrefixes only.
pivx ==
  [pivxPrefixes |->
     [pubKeyHash |-> Num(30),
      scriptHash |-> Num(13),
      staking    |-> Num(63),
      exchange   |-> Arr(<<1, 185, 162>>)]]

(***************************************************************************)
(* The Base58Check codec (package bs58check over base-x), an external      *)
(* collaborator: encode never fails, decode fails on a character outside   *)
(* the alphabet or on a checksum mismatch.  The base conversion is the     *)
(* library's; the 4 checksum bytes stand in for the first 4 bytes of       *)
(* sha256(sha256(payload)) by an Adler-32 sum, a deterministic function    *)
(* of the payload.                                                         *)
(***************************************************************************)
ALPHABET ==
  <<
    "1", "2", "3", "4", "5", "6", "7", "8", "9", "A",
    "B", "C", "D", "E", "F", "G", "H", "J", "K", "L",
    "M", "N", "P", "Q", "R", "S", "T", "U", "V", "W",
    "X", "Y", "Z", "a", "b", "c", "d", "e", "f", "g",
    "h", "i", "j", "k", "m", "n", "o", "p", "q", "r",
    "s", "t", "u", "v", "w", "x", "y", "z"
  >>

BASE == Len(ALPHABET)

LEADER == ALPHABET[1]

InAlphabet(c) == \E i \in 1..BASE : ALPHABET[i] = c

\* BASE_MAP: the digit a character stands for.
BASE_MAP(c) == (CHOOSE i \in 1..BASE : ALPHABET[i] = c) - 1

RECURSIVE Reverse(_)
Reverse(s) == IF s = <<>> THEN <<>> ELSE Append(Reverse(Tail(s)), Head(s))

RECURSIVE Repeat(_, _)
Repeat(x, n) == IF n <= 0 THEN <<>> ELSE <<x>> \o Repeat(x, n - 1)

RECURSIVE LeadingCount(_, _)
\* How many leading elements of s equal x.
LeadingCount(s, x) ==
  IF s # <<>> /\ Head(s) = x THEN 1 + LeadingCount(Tail(s), x) ELSE 0

RECURSIVE MulAdd(_, _, _, _)
\* The carry loop of base-x: d holds a number's digits in base `to`, least
\* significant first; the result holds d * from + carry.
MulAdd(d, to, from, carry) ==
  IF d = <<>>
  THEN IF carry = 0 THEN <<>>
       ELSE <<carry % to>> \o MulAdd(<<>>, to, from, carry \div to)
  ELSE LET t == Head(d) * from + carry
       IN  <<t % to>> \o MulAdd(Tail(d), to, from, t \div to)

RECURSIVE Convert(_, _, _, _)
\* Digits src (most significant first, base `from`) folded into acc.
Convert(src, from, to, acc) ==
  IF src = <<>> THEN acc
  ELSE Convert(Tail(src), from, to, MulAdd(acc, to, from, Head(src)))

\* base58.encode: a leader per leading zero byte, then the digits.
base58Encode(source) ==
  LET zeroes == LeadingCount(source, 0)
      b58 == Reverse(Convert(source, 256, BASE, <<>>))
  IN  Repeat(LEADER, zeroes) \o [i \in 1..Len(b58) |-> ALPHABET[b58[i] + 1]]

\* base58.decode: fails on the first character outside the alphabet.
base58Decode(str) ==
  IF \E i \in 1..Len(str) : ~InAlphabet(str[i])
  THEN Throw(Error("Non-base58 character", <<>>), <<>>)
  ELSE LET zeroes == LeadingCount(str, LEADER)
           digits == [i \in 1..Len(str) |-> BASE_MAP(str[i])]
           b256 == Reverse(Convert(digits, BASE, 256, <<>>))
       IN  Return(Repeat(0, zeroes) \o b256, <<>>)

RECURSIVE Adler(_, _, _)
Adler(s, a, b) ==
  IF s = <<>> THEN <<b \div 256, b % 256, a \div 256, a % 256>>
  ELSE LET a2 == (a + Head(s)) % 65521
       IN  Adler(Tail(s), a2, (b + a2) % 65521)

\* checksumFn: 4 bytes determined by the payload.
checksumFn(payload) == Adler(payload, 1, 0)

\* bs58check.encode(payload)
bs58checkEncode(payload) == base58Encode(payload \o checksumFn(payload))

\* bs58check.decode(string): the payload is buffer.slice(0, -4), the
\* checksum buffer.slice(-4); a missing checksum byte compares as 0.
bs58checkDecode(str) ==
  LET b == base58Decode(str)
  IN  IF ~b.ok THEN b
      ELSE LET buffer == b.value
               payload == slice(buffer, 0, Max(Len(buffer) - 4, 0))
               checksum == slice(buffer, Max(Len(buffer) - 4, 0), Len(buffer))
               newChecksum == checksumFn(payload)
           IN  IF \E i \in 1..4 :
                    (IF i <= Len(checksum) THEN checksum[i] ELSE 0)
                      # newChecksum[i]
               THEN Throw(Error("Invalid checksum", <<>>), <<>>)
               ELSE Return(payload, <<>>)


(***************************************************************************)
(* address.ts                                                              *)
(***************************************************************************)

\* versionEquals(a, b): numbers by value, arrays by length and elements,
\* a number and an array never.
versionEquals(a, b) ==
  IF IsNumber(a) /\ IsNumber(b) THEN a.bytes[1] = b.bytes[1]
  ELSE IF IsArray(a) /\ IsArray(b)
       THEN /\ Len(a.bytes) = Len(b.bytes)
            /\ \A idx \in 1..Len(a.bytes) : a.bytes[idx] = b.bytes[idx]
       ELSE FALSE

\* Mutant: the byte is written without padding to two digits.
UnknownPrefixError_noPad(singleByteVersion) ==
  Error("Unknown PIVX address prefix: 0x",
        toStringRadix(singleByteVersion, 16))

\* The message of the unknown-prefix error: the byte as two hex digits.
UnknownPrefixError(singleByteVersion) ==
  Error("Unknown PIVX address prefix: 0x",
        padStart(toStringRadix(singleByteVersion, 16), 2, "0"))

\* Mutant: the length check admits a payload of 20 bytes.
extractSingleByte_min20(payload, prefixes, tr) ==
  IF Len(payload) < 20
  THEN Throw(Error("Address payload too short", <<>>), tr)
  ELSE LET singleByteVersion == payload[1]
           hash == slice(payload, 1, Len(payload))
           tr2 == tr \o <<"payload[0]", "payload.slice(1)">>
       IN  IF IsNumber(prefixes.pubKeyHash)
              /\ singleByteVersion = prefixes.pubKeyHash.bytes[1]
           THEN Return([version |-> Num(singleByteVersion), hash |-> hash,
                        type |-> "p2pkh", shared |-> {}], tr2)
           ELSE IF IsNumber(prefixes.scriptHash)
                   /\ singleByteVersion = prefixes.scriptHash.bytes[1]
           THEN Return([version |-> Num(singleByteVersion), hash |-> hash,
                        type |-> "p2sh", shared |-> {}], tr2)
           ELSE IF IsNumber(prefixes.staking)
                   /\ singleByteVersion = prefixes.staking.bytes[1]
           THEN Return([version |-> Num(singleByteVersion), hash |-> hash,
                        type |-> "staking", shared |-> {}], tr2)
           ELSE Throw(UnknownPrefixError(singleByteVersion), tr2)

\* Mutant: the third comparison tests scriptHash again, staking never
\* matches.
extractSingleByte_stakingTypo(payload, prefixes, tr) ==
  IF Len(payload) < 21
  THEN Throw(Error("Address payload too short", <<>>), tr)
  ELSE LET singleByteVersion == payload[1]
           hash == slice(payload, 1, Len(payload))
           tr2 == tr \o <<"payload[0]", "payload.slice(1)">>
       IN  IF IsNumber(prefixes.pubKeyHash)
              /\ singleByteVersion = prefixes.pubKeyHash.bytes[1]
           THEN Return([version |-> Num(singleByteVersion), hash |-> hash,
                        type |-> "p2pkh", shared |-> {}], tr2)
           ELSE IF IsNumber(prefixes.scriptHash)
                   /\ singleByteVersion = prefixes.scriptHash.bytes[1]
           THEN Return([version |-> Num(singleByteVersion), hash |-> hash,
                        type |-> "p2sh", shared |-> {}], tr2)
           ELSE Throw(UnknownPrefixError(singleByteVersion), tr2)

\* Mutant: staking is compared first, then pubKeyHash, then scriptHash.
extractSingleByte_stakingFirst(payload, prefixes, tr) ==
  IF Len(payload) < 21
  THEN Throw(Error("Address payload too short", <<>>), tr)
  ELSE LET singleByteVersion == payload[1]
           hash == slice(payload, 1, Len(payload))
           tr2 == tr \o <<"payload[0]", "payload.slice(1)">>
       IN  IF IsNumber(prefixes.staking)
              /\ singleByteVersion = prefixes.staking.bytes[1]
           THEN Return([version |-> Num(singleByteVersion), hash |-> hash,
                        type |-> "staking", shared |-> {}], tr2)
           ELSE IF IsNumber(prefixes.pubKeyHash)
                   /\ singleByteVersion = prefixes.pubKeyHash.bytes[1]
           THEN Return([version |-> Num(singleByteVersion), hash |-> hash,
                        type |-> "p2pkh", shared |-> {}], tr2)
           ELSE IF IsNumber(prefixes.scriptHash)
                   /\ singleByteVersion = prefixes.scriptHash.bytes[1]
           THEN Return([version |-> Num(singleByteVersion), hash |-> hash,
                        type |-> "p2sh", shared |-> {}], tr2)
           ELSE Throw(UnknownPrefixError(singleByteVersion), tr2)

\* The single-byte part of extractVersion, from the length check on.
extractSingleByte(payload, prefixes, tr) ==
  IF Len(payload) < 21
  THEN Throw(Error("Address payload too short", <<>>), tr)
  ELSE LET singleByteVersion == payload[1]
           hash == slice(payload, 1, Len(payload))
           tr2 == tr \o <<"payload[0]", "payload.slice(1)">>
       IN  IF IsNumber(prefixes.pubKeyHash)
              /\ singleByteVersion = prefixes.pubKeyHash.bytes[1]
           THEN Return([version |-> Num(singleByteVersion), hash |-> hash,
                        type |-> "p2pkh", shared |-> {}], tr2)
           ELSE IF IsNumber(prefixes.scriptHash)
                   /\ singleByteVersion = prefixes.scriptHash.bytes[1]
           THEN Return([version |-> Num(singleByteVersion), hash |-> hash,
                        type |-> "p2sh", shared |-> {}], tr2)
           ELSE IF IsNumber(prefixes.staking)
                   /\ singleByteVersion = prefixes.staking.bytes[1]
           THEN Return([version |-> Num(singleByteVersion), hash |-> hash,
                        type |-> "staking", shared |-> {}], tr2)
           ELSE Throw(UnknownPrefixError(singleByteVersion), tr2)

\* Mutant: the single-byte prefixes are tried first, the exchange prefix
\* only when none of them matches.
extractVersion_singleFirst(payload, net) ==
  LET prefixes == net.pivxPrefixes
      exLen == Len(prefixes.exchange.bytes)
      single == extractSingleByte(payload, prefixes, <<>>)
  IN  IF single.ok THEN single
      ELSE IF IsArray(prefixes.exchange) /\ Len(payload) >= exLen + 20
              /\ versionEquals(Arr(slice(payload, 0, exLen)),
                               prefixes.exchange)
      THEN Return([version |-> prefixes.exchange,
                   hash |-> slice(payload, exLen, Len(payload)),
                   type |-> "exchange", shared |-> {"version"}],
                  single.trace \o <<"payload.slice(0, exchange.length)",
                                    "payload.slice(exchange.length)">>)
      ELSE single

\* Mutant: a payload long enough for the exchange prefix that does not
\* start with it is refused at once.
extractVersion_failEarly(payload, net) ==
  LET prefixes == net.pivxPrefixes
      exLen == Len(prefixes.exchange.bytes)
  IN  IF IsArray(prefixes.exchange) /\ Len(payload) >= exLen + 20
      THEN LET prefixBytes == Arr(slice(payload, 0, exLen))
               tr == <<"payload.slice(0, exchange.length)">>
           IN  IF versionEquals(prefixBytes, prefixes.exchange)
               THEN Return([version |-> prefixes.exchange,
                            hash |-> slice(payload, exLen, Len(payload)),
                            type |-> "exchange", shared |-> {"version"}],
                           tr \o <<"payload.slice(exchange.length)">>)
               ELSE Throw(UnknownPrefixError(payload[1]), tr)
      ELSE extractSingleByte(payload, prefixes, <<>>)

\* extractVersion(payload, network): the 3-byte exchange prefix first,
\* then the single-byte prefixes.  A single-byte version is a number, the
\* hash a new array (slice copies); the version of an exchange match is
\* prefixes.exchange itself, the array the registry holds: `shared` names
\* the fields of the result that are objects of the registry.
extractVersion(payload, net) ==
  LET prefixes == net.pivxPrefixes
      exLen == Len(prefixes.exchange.bytes)
  IN  IF IsArray(prefixes.exchange) /\ Len(payload) >= exLen + 20
      THEN LET prefixBytes == Arr(slice(payload, 0, exLen))
               tr == <<"payload.slice(0, exchange.length)">>
           IN  IF versionEquals(prefixBytes, prefixes.exchange)
               THEN Return([version |-> prefixes.exchange,
                            hash |-> slice(payload, exLen, Len(payload)),
                            type |-> "exchange", shared |-> {"version"}],
                           tr \o <<"payload.slice(exchange.length)">>)
               ELSE extractSingleByte(payload, prefixes, tr)
      ELSE extractSingleByte(payload, prefixes, <<>>)

\* Mutant: a hash longer than 20 bytes passes.
hashLengthValid_atLeast(hash) == Len(hash) >= 20

\* The hash-length validation of parsePivxBase58Address.
hashLengthValid(hash) == Len(hash) = 20

\* Mutant: the error states the payload's length, not the hash's.
parsePivxBase58Address_payloadLength(address, net) ==
  LET decoded == bs58checkDecode(address)
      tr1 == <<"bs58check.decode">>
  IN  IF ~decoded.ok THEN Throw(decoded.error, tr1)
      ELSE LET payload == decoded.value
               ex == extractVersion(payload, net)
               tr2 == tr1 \o <<"extractVersion">> \o ex.trace
           IN  IF ~ex.ok THEN Throw(ex.error, tr2)
               ELSE IF ~hashLengthValid(ex.value.hash)
               THEN Throw(Error("Invalid hash length: expected 20 bytes, got ",
                                toStringRadix(Len(payload), 10)),
                          tr2 \o <<"hash.length">>)
               ELSE Return([type |-> ex.value.type,
                            version |-> ex.value.version,
                            hash |-> ex.value.hash,
                            shared |-> ex.value.shared],
                           tr2 \o <<"hash.length">>)

\* Mutant: a failure of the decoder is swallowed and the matcher runs on
\* an empty payload.
parsePivxBase58Address_masked(address, net) ==
  LET decoded == bs58checkDecode(address)
      tr1 == <<"bs58check.decode">>
      payload == IF decoded.ok THEN decoded.value ELSE <<>>
      ex == extractVersion(payload, net)
      tr2 == tr1 \o <<"extractVersion">> \o ex.trace
  IN  IF ~ex.ok THEN Throw(ex.error, tr2)
      ELSE IF ~hashLengthValid(ex.value.hash)
      THEN Throw(Error("Invalid hash length: expected 20 bytes, got ",
                       toStringRadix(Len(ex.value.hash), 10)),
                 tr2 \o <<"hash.length">>)
      ELSE Return([type |-> ex.value.type, version |-> ex.value.version,
                   hash |-> ex.value.hash, shared |-> ex.value.shared],
                  tr2 \o <<"hash.length">>)

\* Mutant: the hash length is not validated.
parsePivxBase58Address_noHashCheck(address, net) ==
  LET decoded == bs58checkDecode(address)
      tr1 == <<"bs58check.decode">>
  IN  IF ~decoded.ok THEN Throw(decoded.error, tr1)
      ELSE LET payload == decoded.value
               ex == extractVersion(payload, net)
               tr2 == tr1 \o <<"extractVersion">> \o ex.trace
           IN  IF ~ex.ok THEN Throw(ex.error, tr2)
               ELSE Return([type |-> ex.value.type,
                            version |-> ex.value.version,
                            hash |-> ex.value.hash,
                            shared |-> ex.value.shared], tr2)

\* Mutant: the length is validated before the prefixes are looked up.
parsePivxBase58Address_lengthFirst(address, net) ==
  LET decoded == bs58checkDecode(address)
      tr1 == <<"bs58check.decode">>
  IN  IF ~decoded.ok THEN Throw(decoded.error, tr1)
      ELSE LET payload == decoded.value
               ex == extractVersion(payload, net)
               tr2 == tr1 \o <<"hash.length", "extractVersion">> \o ex.trace
           IN  IF Len(payload) \notin {21, 23}
               THEN Throw(Error("Invalid hash length: expected 20 bytes, got ",
                                toStringRadix(Max(Len(payload) - 1, 0), 10)),
                          tr1 \o <<"hash.length">>)
               ELSE IF ~ex.ok THEN Throw(ex.error, tr2)
               ELSE IF ~hashLengthValid(ex.value.hash)
               THEN Throw(Error("Invalid hash length: expected 20 bytes, got ",
                                toStringRadix(Len(ex.value.hash), 10)),
                          tr2)
               ELSE Return([type |-> ex.value.type,
                            version |-> ex.value.version,
                            hash |-> ex.value.hash,
                            shared |-> ex.value.shared], tr2)

\* parsePivxBase58Address(address, network)
parsePivxBase58Address(address, net) ==
  LET decoded == bs58checkDecode(address)
      tr1 == <<"bs58check.decode">>
  IN  IF ~decoded.ok THEN Throw(decoded.error, tr1)
      ELSE LET payload == decoded.value
               ex == extractVersion(payload, net)
               tr2 == tr1 \o <<"extractVersion">> \o ex.trace
           IN  IF ~ex.ok THEN Throw(ex.error, tr2)
               ELSE IF ~hashLengthValid(ex.value.hash)
               THEN Throw(Error("Invalid hash length: expected 20 bytes, got ",
                                toStringRadix(Len(ex.value.hash), 10)),
                          tr2 \o <<"hash.length">>)
               ELSE Return([type |-> ex.value.type,
                            version |-> ex.value.version,
                            hash |-> ex.value.hash,
                            shared |-> ex.value.shared],
                           tr2 \o <<"hash.length">>)

\* Mutant: the bytes of a multi-byte prefix are written in reverse order.
assemblePayload_reversed(hash, version) ==
  IF IsNumber(version)
  THEN [i \in 1..21 |-> IF i = 1 THEN version.bytes[1] ELSE hash[i - 1]]
  ELSE [i \in 1..(Len(version.bytes) + Len(hash)) |->
          IF i <= Len(version.bytes)
          THEN version.bytes[Len(version.bytes) + 1 - i] % 256
          ELSE hash[i - Len(version.bytes)]]

\* Mutant: the single-byte version is never written, byte 0 stays 0.
assemblePayload_versionNotWritten(hash, version) ==
  IF IsNumber(version)
  THEN [i \in 1..21 |-> IF i = 1 THEN 0 ELSE hash[i - 1]]
  ELSE [i \in 1..(Len(version.bytes) + Len(hash)) |->
          IF i <= Len(version.bytes) THEN version.bytes[i] % 256
          ELSE hash[i - Len(version.bytes)]]

\* Mutant: the hash is written first, the version after it.
assemblePayload_hashFirst(hash, version) ==
  IF IsNumber(version)
  THEN [i \in 1..21 |-> IF i = 21 THEN version.bytes[1] ELSE hash[i]]
  ELSE [i \in 1..(Len(version.bytes) + Len(hash)) |->
          IF i <= Len(hash) THEN hash[i]
          ELSE version.bytes[i - Len(hash)] % 256]

\* The payload encodePivxAddress assembles for a 20-byte hash: the version
\* (a byte, or the elements of the array as bytes), then the hash.
assemblePayload(hash, version) ==
  IF IsNumber(version)
  THEN [i \in 1..21 |-> IF i = 1 THEN version.bytes[1] ELSE hash[i - 1]]
  ELSE [i \in 1..(Len(version.bytes) + Len(hash)) |->
          IF i <= Len(version.bytes) THEN version.bytes[i] % 256
          ELSE hash[i - Len(version.bytes)]]

\* Mutant: the payload is allocated before the hash length is checked.
encodePivxAddress_allocFirst(hash, version) ==
  IF Len(hash) # 20
  THEN Throw(Error("Hash must be 20 bytes, got ",
                   toStringRadix(Len(hash), 10)),
             <<"new Uint8Array", "hash.length">>)
  ELSE Return(bs58checkEncode(assemblePayload(hash, version)),
              <<"new Uint8Array", "hash.length",
                IF IsNumber(version) THEN "writeUInt8" ELSE "payload.set",
                "payload.set", "bs58check.encode">>)

\* Mutant: an array prefix is extended in place with the hash bytes and
\* encoded, instead of being copied into a new payload.
encodePivxAddress_appendsToVersion(hash, version) ==
  IF Len(hash) # 20
  THEN Throw(Error("Hash must be 20 bytes, got ",
                   toStringRadix(Len(hash), 10)),
             <<"hash.length">>)
  ELSE Return(bs58checkEncode(assemblePayload(hash, version)),
              IF IsNumber(version)
              THEN <<"hash.length", "new Uint8Array", "writeUInt8",
                     "payload.set", "bs58check.encode">>
              ELSE <<"hash.length", "version.push", "bs58check.encode">>)

\* encodePivxAddress(hash, version)
encodePivxAddress(hash, version) ==
  IF Len(hash) # 20
  THEN Throw(Error("Hash must be 20 bytes, got ",
                   toStringRadix(Len(hash), 10)),
             <<"hash.length">>)
  ELSE Return(bs58checkEncode(assemblePayload(hash, version)),
              <<"hash.length", "new Uint8Array",
                IF IsNumber(version) THEN "writeUInt8" ELSE "payload.set",
                "payload.set", "bs58check.encode">>)

\* encodePivxExchangeAddress(hash, network)
encodePivxExchangeAddress(hash, net) ==
  encodePivxAddress(hash, net.pivxPrefixes.exchange)

\* Mutant: the staking wrapper takes the pubKeyHash prefix.
encodePivxStakingAddress_pubKeyHash(hash, net) ==
  encodePivxAddress(hash, net.pivxPrefixes.pubKeyHash)

\* encodePivxStakingAddress(hash, network)
encodePivxStakingAddress(hash, net) ==
  encodePivxAddress(hash, net.pivxPrefixes.staking)

(***************************************************************************)
(* script.ts: the opcodes used and compile, which writes an opcode as its  *)
(* byte and a data chunk as a push of its bytes.                           *)
(***************************************************************************)
OPS ==
  [OP_DUP |-> 118, OP_HASH160 |-> 169, OP_EQUAL |-> 135,
   OP_EQUALVERIFY |-> 136, OP_CHECKSIG |-> 172, OP_PUSHDATA1 |-> 76]

Op(n) == [chunk |-> "op", op |-> n, data |-> <<>>]

Data(b) == [chunk |-> "data", op |-> 0, data |-> b]

RECURSIVE compile(_)
compile(chunks) ==
  IF chunks = <<>> THEN <<>>
  ELSE LET c == Head(chunks)
           bytes == IF c.chunk = "op" THEN <<c.op>>
                    ELSE IF Len(c.data) < OPS.OP_PUSHDATA1
                         THEN <<Len(c.data)>> \o c.data
                         ELSE <<OPS.OP_PUSHDATA1, Len(c.data)>> \o c.data
       IN  bytes \o compile(Tail(chunks))

\* Mutant: the exchange case is missing its marker opcode.
scriptChunks_noMarker(parsed) ==
  CASE parsed.type \in {"p2pkh", "staking", "exchange"} ->
         Return(<<Op(OPS.OP_DUP), Op(OPS.OP_HASH160), Data(parsed.hash),
                  Op(OPS.OP_EQUALVERIFY), Op(OPS.OP_CHECKSIG)>>, <<>>)
    [] parsed.type = "p2sh" ->
         Return(<<Op(OPS.OP_HASH160), Data(parsed.hash),
                  Op(OPS.OP_EQUAL)>>, <<>>)
    [] OTHER ->
         Throw(Error("Unknown PIVX address type: ", <<parsed.type>>), <<>>)

\* Mutant: the switch has no case for staking.
scriptChunks_noStaking(parsed) ==
  CASE parsed.type = "p2pkh" ->
         Return(<<Op(OPS.OP_DUP), Op(OPS.OP_HASH160), Data(parsed.hash),
                  Op(OPS.OP_EQUALVERIFY), Op(OPS.OP_CHECKSIG)>>, <<>>)
    [] parsed.type = "exchange" ->
         Return(<<Op(224), Op(OPS.OP_DUP), Op(OPS.OP_HASH160),
                  Data(parsed.hash), Op(OPS.OP_EQUALVERIFY),
                  Op(OPS.OP_CHECKSIG)>>, <<>>)
    [] parsed.type = "p2sh" ->
         Return(<<Op(OPS.OP_HASH160), Data(parsed.hash),
                  Op(OPS.OP_EQUAL)>>, <<>>)
    [] OTHER ->
         Throw(Error("Unknown PIVX address type: ", <<parsed.type>>), <<>>)

\* The chunks pivxAddressToOutputScript compiles for a parsed address.
scriptChunks(parsed) ==
  CASE parsed.type \in {"p2pkh", "staking"} ->
         Return(<<Op(OPS.OP_DUP), Op(OPS.OP_HASH160), Data(parsed.hash),
                  Op(OPS.OP_EQUALVERIFY), Op(OPS.OP_CHECKSIG)>>, <<>>)
    [] parsed.type = "exchange" ->
         Return(<<Op(224), Op(OPS.OP_DUP), Op(OPS.OP_HASH160),
                  Data(parsed.hash), Op(OPS.OP_EQUALVERIFY),
                  Op(OPS.OP_CHECKSIG)>>, <<>>)
    [] parsed.type = "p2sh" ->
         Return(<<Op(OPS.OP_HASH160), Data(parsed.hash),
                  Op(OPS.OP_EQUAL)>>, <<>>)
    [] OTHER ->
         Throw(Error("Unknown PIVX address type: ", <<parsed.type>>), <<>>)

\* pivxAddressToOutputScript(address, network)
pivxAddressToOutputScript(address, net) ==
  LET parsed == parsePivxBase58Address(address, net)
      tr == <<"parsePivxBase58Address">> \o parsed.trace
  IN  IF ~parsed.ok THEN Throw(parsed.error, tr)
      ELSE LET chunks == scriptChunks(parsed.value)
           IN  IF ~chunks.ok THEN Throw(chunks.error, tr)
               ELSE Return(compile(chunks.value),
                           tr \o <<"bscript.compile">>)

\* toOutputScript(address, network): the alias.
toOutputScript(address, net) == pivxAddressToOutputScript(address, net)


(***************************************************************************)
(* The inputs the calls are made with.                                     *)
(***************************************************************************)
MaxPayloadLen == 25

MaxHashLen == 21

Registry(p, s, k, x) ==
  [pivxPrefixes |->
     [pubKeyHash |-> Num(p), scriptHash |-> Num(s), staking |-> Num(k),
      exchange |-> Arr(x)]]

\* The network's registry, one whose pubKeyHash byte is the first byte of
\* the exchange prefix, and four in which single-byte classes share a
\* byte.
Registries ==
  {pivx,
   Registry(1, 13, 63, <<1, 185, 162>>),
   Registry(30, 30, 63, <<1, 185, 162>>),
   Registry(30, 13, 13, <<1, 185, 162>>),
   Registry(30, 13, 30, <<1, 185, 162>>),
   Registry(63, 63, 63, <<1, 185, 162>>)}

\* n bytes seed, seed + step, seed + 2 step, ... (mod 256).
Pattern(n, seed, step) == [i \in 1..n |-> (seed + (i - 1) * step) % 256]

Fills == {<<18, 0>>, <<7, 10>>}

HashFills == {<<0, 0>>, <<255, 0>>, <<18, 0>>, <<137, 34>>}

Heads ==
  {<<>>, <<0>>, <<1>>, <<13>>, <<30>>, <<63>>, <<255>>,
   <<1, 185, 162>>, <<1, 185, 163>>, <<1, 184, 162>>, <<30, 185, 162>>}

\* A raw payload of n bytes: the head, cut to n, then the pattern.
RawPayload(head, n, fill) ==
  [i \in 1..n |-> IF i <= Len(head) THEN head[i]
                  ELSE (fill[1] + (i - 1) * fill[2]) % 256]

RawPayloads ==
  {RawPayload(h, n, f) : h \in Heads, n \in 0..MaxPayloadLen, f \in Fills}

Hashes ==
  {Pattern(n, f[1], f[2]) : n \in (0..MaxHashLen) \cup {30}, f \in HashFills}

Versions ==
  {Num(0), Num(1), Num(13), Num(30), Num(63), Num(255),
   Arr(<<1, 185, 162>>), Arr(<<1, 185>>), Arr(<<30>>)}

\* Strings the Base58Check decoder refuses: a valid address with its last
\* character changed or with a character outside the alphabet, and the
\* string of the test suite.
NextChar(c) == ALPHABET[((BASE_MAP(c) + 1) % BASE) + 1]

Malformed(addr) ==
  {[addr EXCEPT ![Len(addr)] = NextChar(addr[Len(addr)])],
   [addr EXCEPT ![1] = "0"],
   Append(addr, "!")}

InvalidBase58 ==
  <<"I", "n", "v", "a", "l", "i", "d", "B", "a", "s", "e", "5", "8",
    "!", "@", "#">>

MalformedAddresses ==
  UNION {Malformed(bs58checkEncode(RawPayload(h, n, <<18, 0>>))) :
           h \in {<<30>>, <<1, 185, 162>>, <<255>>}, n \in {15, 21, 23, 24}}
    \cup {InvalidBase58, <<>>}

Addresses == {bs58checkEncode(p) : p \in RawPayloads} \cup MalformedAddresses

AliasAddresses ==
  {bs58checkEncode(RawPayload(h, n, <<18, 0>>)) : h \in Heads, n \in {21, 23}}
    \cup MalformedAddresses

(***************************************************************************)
(* The calls.  A call is made from the idle state with inputs of the sets  *)
(* above; the state then holds the call and its outcome until the caller   *)
(* takes it.                                                               *)
(***************************************************************************)
NoCall ==
  [op |-> "none", address |-> <<>>, payload |-> <<>>, hash |-> <<>>,
   version |-> Num(0)]

NoOutcome == Return(<<>>, <<>>)

Init ==
  /\ network \in Registries
  /\ pc = "idle"
  /\ call = NoCall
  /\ outcome = NoOutcome

Call(op, address, payload, hash, version, result) ==
  /\ call' = [op |-> op, address |-> address, payload |-> payload,
              hash |-> hash, version |-> version]
  /\ outcome' = result
  /\ pc' = "returned"
  /\ UNCHANGED network

Parse ==
  /\ pc = "idle"
  /\ \E address \in Addresses :
       Call("parsePivxBase58Address", address, <<>>, <<>>, Num(0),
            parsePivxBase58Address(address, network))

Encode ==
  /\ pc = "idle"
  /\ \E hash \in Hashes, version \in Versions :
       Call("encodePivxAddress", <<>>, <<>>, hash, version,
            encodePivxAddress(hash, version))

EncodeExchange ==
  /\ pc = "idle"
  /\ \E hash \in Hashes :
       Call("encodePivxExchangeAddress", <<>>, <<>>, hash, Num(0),
            encodePivxExchangeAddress(hash, network))

EncodeStaking ==
  /\ pc = "idle"
  /\ \E hash \in Hashes :
       Call("encodePivxStakingAddress", <<>>, <<>>, hash, Num(0),
            encodePivxStakingAddress(hash, network))

\* The matcher alone, on a raw payload.
ExtractVersion ==
  /\ pc = "idle"
  /\ \E payload \in RawPayloads :
       Call("extractVersion", <<>>, payload, <<>>, Num(0),
            extractVersion(payload, network))

AddressToOutputScript ==
  /\ pc = "idle"
  /\ \E address \in Addresses :
       Call("pivxAddressToOutputScript", address, <<>>, <<>>, Num(0),
            pivxAddressToOutputScript(address, network))

ToOutputScript ==
  /\ pc = "idle"
  /\ \E address \in AliasAddresses :
       Call("toOutputScript", address, <<>>, <<>>, Num(0),
            toOutputScript(address, network))

\* The caller takes the outcome; nothing of the call persists.
Done ==
  /\ pc = "returned"
  /\ pc' = "idle"
  /\ call' = NoCall
  /\ outcome' = NoOutcome
  /\ UNCHANGED network

Next ==
  \/ Parse
  \/ Encode
  \/ EncodeExchange
  \/ EncodeStaking
  \/ ExtractVersion
  \/ AddressToOutputScript
  \/ ToOutputScript
  \/ Done

Spec == Init /\ [][Next]_vars

(***************************************************************************)
(* A caller that writes to the result it was returned.  The fields of      *)
(* ParsedPivxAddress are not readonly: version is a number or a number[],  *)
(* hash a Uint8Array.  A write to an array writes the object, whoever      *)
(* else holds it.                                                          *)
(***************************************************************************)
WrittenBytes == {255}

HoldsResult ==
  pc = "returned" /\ call.op = "parsePivxBase58Address" /\ outcome.ok

\* parsed.version[i] = b, for a version that is an array.
MutateVersion ==
  /\ HoldsResult
  /\ IsArray(outcome.value.version)
  /\ \E i \in 1..Len(outcome.value.version.bytes), b \in WrittenBytes :
       /\ outcome' = [outcome EXCEPT !.value.version.bytes[i] = b]
       /\ network' =
            IF "version" \in outcome.value.shared
            THEN [network EXCEPT !.pivxPrefixes.exchange.bytes[i] = b]
            ELSE network
  /\ UNCHANGED <<pc, call>>

\* parsed.hash[i] = b, at the first or the last byte.
MutateHash ==
  /\ HoldsResult
  /\ \E i \in {1, Len(outcome.value.hash)}, b \in WrittenBytes :
       outcome' = [outcome EXCEPT !.value.hash[i] = b]
  /\ UNCHANGED <<network, pc, call>>

InitShared == Init /\ network = pivx

NextShared ==
  \/ Next
  \/ MutateVersion
  \/ MutateHash

SpecShared == InitShared /\ [][NextShared]_vars


(***************************************************************************)
(* What the properties below speak of.                                     *)
(***************************************************************************)
Classes == {"pubKeyHash", "scriptHash", "staking", "exchange"}

\* The registered prefix of a class, and the type a decode reports for it.
ClassPrefix(net, class) ==
  CASE class = "pubKeyHash" -> net.pivxPrefixes.pubKeyHash
    [] class = "scriptHash" -> net.pivxPrefixes.scriptHash
    [] class = "staking" -> net.pivxPrefixes.staking
    [] class = "exchange" -> net.pivxPrefixes.exchange

ClassType(class) ==
  CASE class = "pubKeyHash" -> "p2pkh"
    [] class = "scriptHash" -> "p2sh"
    [] class = "staking" -> "staking"
    [] class = "exchange" -> "exchange"

Types == {ClassType(c) : c \in Classes}

Returned(op) == pc = "returned" /\ call.op = op

\* The raw payload of the call: the one handed to the matcher, or the one
\* the call's address decodes to, when it decodes.
CallDecoded ==
  IF call.op = "extractVersion" THEN Return(call.payload, <<>>)
  ELSE bs58checkDecode(call.address)

CallPayload == CallDecoded.value

\* Whether p starts with the bytes of x.
StartsWith(p, x) == Len(p) >= Len(x) /\ \A i \in 1..Len(x) : p[i] = x[i]

ExchangeBytes(net) == net.pivxPrefixes.exchange.bytes

SingleBytes(net) ==
  {net.pivxPrefixes.pubKeyHash.bytes[1], net.pivxPrefixes.scriptHash.bytes[1],
   net.pivxPrefixes.staking.bytes[1]}

\* The bytes of p after its first n.
Drop(p, n) == [i \in 1..(Len(p) - n) |-> p[i + n]]

Occurs(event, tr) == \E i \in 1..Len(tr) : tr[i] = event

RECURSIVE DigitsValue(_, _, _)
\* The number a string of digits of the given radix writes.
DigitsValue(str, radix, acc) ==
  IF str = <<>> THEN acc
  ELSE DigitsValue(Tail(str), radix,
         acc * radix + (CHOOSE d \in 0..15 : DigitChars[d + 1] = Head(str)))

TooShortText == "Address payload too short"

UnknownPrefixText == "Unknown PIVX address prefix: 0x"

InvalidHashLengthText == "Invalid hash length: expected 20 bytes, got "

HashMustBeText == "Hash must be 20 bytes, got "

(***************************************************************************)
(* C1  Round trip.  Under the network's registry, the address that         *)
(* encodePivxAddress returns for a 20-byte hash and the prefix of any of   *)
(* the four classes decodes to that class, a version equal to the prefix   *)
(* and the same hash bytes.                                                *)
(***************************************************************************)
C1_RoundTrip ==
  (Returned("encodePivxAddress") /\ network = pivx /\ Len(call.hash) = 20)
    => \A class \in Classes :
         call.version = ClassPrefix(pivx, class)
           => /\ outcome.ok
              /\ LET parsed == parsePivxBase58Address(outcome.value, network)
                 IN  /\ parsed.ok
                     /\ parsed.value.type = ClassType(class)
                     /\ parsed.value.version = ClassPrefix(pivx, class)
                     /\ parsed.value.hash = call.hash

C1_Witness ==
  /\ Returned("encodePivxAddress") /\ network = pivx
  /\ call.hash = Pattern(20, 137, 34)
  /\ call.version = ClassPrefix(pivx, "exchange")
  /\ outcome.ok
  /\ parsePivxBase58Address(outcome.value, network).value.type = "exchange"

(***************************************************************************)
(* C2  Whenever parsePivxBase58Address returns, the hash it returns has    *)
(* exactly 20 bytes and the type is one of the four; when the matcher      *)
(* extracts a hash of another length the call fails.                       *)
(***************************************************************************)
C2_ResultShape ==
  Returned("parsePivxBase58Address")
    => /\ outcome.ok
         => Len(outcome.value.hash) = 20 /\ outcome.value.type \in Types
       /\ (CallDecoded.ok
           /\ extractVersion(CallPayload, network).ok
           /\ Len(extractVersion(CallPayload, network).value.hash) # 20)
         => ~outcome.ok

C2_Witness ==
  /\ Returned("parsePivxBase58Address") /\ network = pivx
  /\ CallDecoded.ok /\ Len(CallPayload) = 23
  /\ outcome.ok
  /\ outcome.value.type = "exchange" /\ Len(outcome.value.hash) = 20

(***************************************************************************)
(* C3  Prefix priority.  A payload of at least 23 bytes that starts with   *)
(* the registered exchange prefix is matched as exchange, with the bytes   *)
(* after the prefix as its hash, also when a single-byte prefix of the     *)
(* registry equals the first byte of the exchange prefix.                  *)
(***************************************************************************)
C3_PrefixPriority ==
  (Returned("extractVersion") /\ Len(call.payload) >= 23
   /\ StartsWith(call.payload, ExchangeBytes(network)))
    => /\ outcome.ok
       /\ outcome.value.type = "exchange"
       /\ outcome.value.hash = Drop(call.payload, 3)
       /\ outcome.value.version = network.pivxPrefixes.exchange

C3_Witness ==
  /\ Returned("extractVersion") /\ Len(call.payload) = 23
  /\ StartsWith(call.payload, ExchangeBytes(network))
  /\ call.payload[1] \in SingleBytes(network)
  /\ outcome.ok /\ outcome.value.type = "exchange"

(***************************************************************************)
(* C4  encodePivxAddress with a hash of any length but 20 fails with the   *)
(* hash-length error, which states the actual length, and it fails before  *)
(* the payload is allocated and before Base58Check is called.              *)
(***************************************************************************)
C4_EncodeLengthFirst ==
  (Returned("encodePivxAddress") /\ Len(call.hash) # 20)
    => /\ ~outcome.ok
       /\ outcome.error.text = HashMustBeText
       /\ DigitsValue(outcome.error.detail, 10, 0) = Len(call.hash)
       /\ ~Occurs("new Uint8Array", outcome.trace)
       /\ ~Occurs("bs58check.encode", outcome.trace)

C4_Witness ==
  /\ Returned("encodePivxAddress") /\ Len(call.hash) = 30
  /\ call.version = Num(30)
  /\ ~outcome.ok /\ outcome.error.detail = <<"3", "0">>

(***************************************************************************)
(* C5  Short payloads.  Under the network's registry every payload of      *)
(* fewer than 21 bytes is refused as too short, and no byte of it has      *)
(* been read by then.                                                      *)
(***************************************************************************)
C5_ShortPayload ==
  ((Returned("parsePivxBase58Address") \/ Returned("extractVersion"))
   /\ network = pivx /\ CallDecoded.ok /\ Len(CallPayload) < 21)
    => /\ ~outcome.ok
       /\ outcome.error.text = TooShortText
       /\ ~Occurs("payload[0]", outcome.trace)
       /\ ~Occurs("payload.slice(1)", outcome.trace)
       /\ ~Occurs("payload.slice(0, exchange.length)", outcome.trace)

C5_Witness ==
  /\ Returned("parsePivxBase58Address") /\ network = pivx
  /\ CallDecoded.ok /\ Len(CallPayload) = 15
  /\ ~outcome.ok /\ outcome.error.text = TooShortText


(***************************************************************************)
(* C6  Unknown prefix.  A payload of 21 bytes whose first byte is none of  *)
(* the registered single-byte prefixes is refused with the unknown-prefix  *)
(* error, whose two hex digits write that byte.                            *)
(***************************************************************************)
C6_UnknownPrefix ==
  (Returned("parsePivxBase58Address") /\ CallDecoded.ok
   /\ Len(CallPayload) = 21 /\ CallPayload[1] \notin SingleBytes(network))
    => /\ ~outcome.ok
       /\ outcome.error.text = UnknownPrefixText
       /\ Len(outcome.error.detail) = 2
       /\ DigitsValue(outcome.error.detail, 16, 0) = CallPayload[1]

C6_Witness ==
  /\ Returned("parsePivxBase58Address") /\ network = pivx
  /\ call.address = encodePivxAddress(Pattern(20, 18, 0), Num(255)).value
  /\ ~outcome.ok
  /\ outcome.error.text = UnknownPrefixText
  /\ outcome.error.detail = <<"f", "f">>

(***************************************************************************)
(* C7  A matched prefix followed by a hash that is not 20 bytes long: a    *)
(* payload of 22 bytes or more that starts with a registered single-byte   *)
(* prefix and not with the exchange prefix, or one of 24 bytes or more     *)
(* that starts with the exchange prefix, is refused with the hash-length   *)
(* error of the decoder, which states the payload's length less the        *)
(* prefix's.                                                               *)
(***************************************************************************)
C7_InvalidHashLength ==
  (Returned("parsePivxBase58Address") /\ CallDecoded.ok)
    => LET payload == CallPayload
           exchange == StartsWith(payload, ExchangeBytes(network))
           extracted ==
             IF exchange THEN Len(payload) - 3 ELSE Len(payload) - 1
       IN  (\/ Len(payload) >= 24 /\ exchange
            \/ Len(payload) >= 22 /\ ~exchange
                 /\ payload[1] \in SingleBytes(network))
             => /\ ~outcome.ok
                /\ outcome.error.text = InvalidHashLengthText
                /\ outcome.error.text \notin {UnknownPrefixText, TooShortText}
                /\ DigitsValue(outcome.error.detail, 10, 0) = extracted

C7_Witness ==
  /\ Returned("parsePivxBase58Address") /\ network = pivx
  /\ CallDecoded.ok /\ Len(CallPayload) = 25
  /\ StartsWith(CallPayload, ExchangeBytes(network))
  /\ ~outcome.ok
  /\ outcome.error.text = InvalidHashLengthText
  /\ outcome.error.detail = <<"2", "2">>

(***************************************************************************)
(* C8  Script projection.  Every address that decodes is projected to the  *)
(* script of its type: p2pkh and staking to DUP HASH160 <hash> EQUALVERIFY *)
(* CHECKSIG (25 bytes), p2sh to HASH160 <hash> EQUAL (23 bytes), exchange  *)
(* to the byte 0xe0 followed by the p2pkh script of the hash (26 bytes).   *)
(***************************************************************************)
P2pkhScript(hash) == <<118, 169, 20>> \o hash \o <<136, 172>>

P2shScript(hash) == <<169, 20>> \o hash \o <<135>>

C8_ScriptProjection ==
  Returned("pivxAddressToOutputScript")
    => LET parsed == parsePivxBase58Address(call.address, network)
       IN  parsed.ok
             => /\ outcome.ok
                /\ LET hash == parsed.value.hash
                       type == parsed.value.type
                   IN  /\ type \in {"p2pkh", "staking"}
                         => /\ outcome.value = P2pkhScript(hash)
                            /\ Len(outcome.value) = 25
                       /\ type = "p2sh"
                         => /\ outcome.value = P2shScript(hash)
                            /\ Len(outcome.value) = 23
                       /\ type = "exchange"
                         => /\ outcome.value = <<224>> \o P2pkhScript(hash)
                            /\ Len(outcome.value) = 26

C8_Witness ==
  /\ Returned("pivxAddressToOutputScript") /\ network = pivx
  /\ outcome.ok
  /\ parsePivxBase58Address(call.address, network).value.type = "exchange"
  /\ Len(outcome.value) = 26 /\ outcome.value[1] = 224

(***************************************************************************)
(* C9  Distinctness.  For a 20-byte hash the addresses encoded with the    *)
(* four prefixes of the network's registry differ from one another, and    *)
(* each decodes to the hash.                                               *)
(***************************************************************************)
C9_Distinct ==
  (Returned("encodePivxAddress") /\ network = pivx /\ Len(call.hash) = 20)
    => \A class \in Classes :
         call.version = ClassPrefix(pivx, class)
           => /\ outcome.ok
              /\ \A other \in Classes \ {class} :
                   LET address ==
                         encodePivxAddress(call.hash, ClassPrefix(pivx, other))
                   IN  address.ok /\ address.value # outcome.value
              /\ parsePivxBase58Address(outcome.value, network).ok
              /\ parsePivxBase58Address(outcome.value, network).value.hash
                   = call.hash

C9_Witness ==
  /\ Returned("encodePivxAddress") /\ network = pivx
  /\ call.hash = Pattern(20, 18, 0)
  /\ call.version = ClassPrefix(pivx, "staking")
  /\ outcome.ok
  /\ outcome.value # encodePivxAddress(call.hash, Num(30)).value

(***************************************************************************)
(* C10  A failure of the Base58Check decoder is the failure of the call,   *)
(* unchanged: the matcher and the hash-length validation do not run.       *)
(***************************************************************************)
C10_DecoderFailure ==
  (Returned("parsePivxBase58Address") /\ ~CallDecoded.ok)
    => /\ ~outcome.ok
       /\ outcome.error = CallDecoded.error
       /\ outcome.error.text
            \notin {TooShortText, UnknownPrefixText, InvalidHashLengthText}
       /\ ~Occurs("extractVersion", outcome.trace)
       /\ ~Occurs("hash.length", outcome.trace)

C10_Witness ==
  /\ Returned("parsePivxBase58Address")
  /\ call.address # InvalidBase58 /\ call.address # <<>>
  /\ ~CallDecoded.ok /\ CallDecoded.error.text = "Invalid checksum"
  /\ ~outcome.ok /\ outcome.error.text = "Invalid checksum"


(***************************************************************************)
(* C11  The convenience encoders.  encodePivxExchangeAddress and           *)
(* encodePivxStakingAddress have the outcome of encodePivxAddress with     *)
(* the registry's exchange and staking prefix, for a hash of any length.   *)
(* For a 20-byte hash the exchange address decodes as exchange, and the    *)
(* staking address decodes as staking when the staking byte is not also    *)
(* the pubKeyHash or scriptHash byte of the registry.                      *)
(***************************************************************************)
WrapperOutcome(prefix) ==
  /\ outcome = encodePivxAddress(call.hash, prefix)
  /\ IF Len(call.hash) = 20
     THEN outcome.ok
          /\ bs58checkDecode(outcome.value).value = prefix.bytes \o call.hash
     ELSE ~outcome.ok /\ outcome.error.text = HashMustBeText

DecodesAs(type) ==
  LET parsed == parsePivxBase58Address(outcome.value, network)
  IN  parsed.ok /\ parsed.value.type = type /\ parsed.value.hash = call.hash

StakingByteOwn(net) ==
  net.pivxPrefixes.staking.bytes[1]
    \notin {net.pivxPrefixes.pubKeyHash.bytes[1],
            net.pivxPrefixes.scriptHash.bytes[1]}

C11_Wrappers ==
  /\ Returned("encodePivxExchangeAddress")
       => /\ WrapperOutcome(network.pivxPrefixes.exchange)
          /\ Len(call.hash) = 20 => DecodesAs("exchange")
  /\ Returned("encodePivxStakingAddress")
       => /\ WrapperOutcome(network.pivxPrefixes.staking)
          /\ (Len(call.hash) = 20 /\ StakingByteOwn(network))
               => DecodesAs("staking")

C11_Witness ==
  /\ Returned("encodePivxStakingAddress") /\ network = pivx
  /\ call.hash = Pattern(20, 255, 0)
  /\ outcome.ok /\ DecodesAs("staking")

\* C11 as stated: for every registry the staking address decodes as
\* staking.
C11_Original ==
  /\ Returned("encodePivxExchangeAddress")
       => /\ WrapperOutcome(network.pivxPrefixes.exchange)
          /\ Len(call.hash) = 20 => DecodesAs("exchange")
  /\ Returned("encodePivxStakingAddress")
       => /\ WrapperOutcome(network.pivxPrefixes.staking)
          /\ Len(call.hash) = 20 => DecodesAs("staking")

(***************************************************************************)
(* C12  The unknown-prefix error is kept for payloads no prefix matches:   *)
(* when byte 0 is a registered single-byte prefix, or the payload has at   *)
(* least 23 bytes and starts with the exchange prefix, a failure of the    *)
(* decode is never the unknown-prefix error.                               *)
(***************************************************************************)
SingleByteMatch(p, net) == Len(p) >= 1 /\ p[1] \in SingleBytes(net)

C13_FreshResult ==
  [][/\ network' = network
     /\ (pc = "idle" /\ call'.op = "parsePivxBase58Address")
          => outcome' = parsePivxBase58Address(call'.address, pivx)]_vars


(***************************************************************************)
(* C14  No operation mutates its inputs.  No step of any call changes the  *)
(* registry, and the steps a call made, successful or failing, are reads   *)
(* of its arguments, allocations, and writes to the payload that the same  *)
(* call allocated before: none writes the hash, the prefix or the          *)
(* registry it was passed.                                                 *)
(***************************************************************************)
ReadSteps ==
  {"bs58check.decode", "bs58check.encode", "extractVersion",
   "parsePivxBase58Address", "bscript.compile", "hash.length", "payload[0]",
   "payload.slice(0, exchange.length)", "payload.slice(exchange.length)",
   "payload.slice(1)"}

AllocSteps == {"new Uint8Array"}

LocalWriteSteps == {"writeUInt8", "payload.set"}

InputsUntouched(tr) ==
  \A i \in 1..Len(tr) :
    \/ tr[i] \in ReadSteps \cup AllocSteps
    \/ tr[i] \in LocalWriteSteps /\ \E j \in 1..(i - 1) : tr[j] \in AllocSteps

C14_NoInputMutated ==
  [][/\ network' = network
     /\ pc' = "returned" => InputsUntouched(outcome'.trace)]_vars

\* An encode with the registry's own exchange prefix that wrote its payload.
C14_Witness ==
  /\ Returned("encodePivxExchangeAddress")
  /\ outcome.ok
  /\ Occurs("payload.set", outcome.trace)
  /\ network.pivxPrefixes.exchange = Arr(<<1, 185, 162>>)


(***************************************************************************)
(* C15  The default branch of the script projection is unreachable:        *)
(* pivxAddressToOutputScript never fails with "Unknown PIVX address        *)
(* type"; it fails exactly when parsePivxBase58Address fails on the same   *)
(* address and registry, and then with the same error.                     *)
(***************************************************************************)
UnknownTypeText == "Unknown PIVX address type: "

C15_DefaultUnreachable ==
  Returned("pivxAddressToOutputScript")
    => LET parsed == parsePivxBase58Address(call.address, network)
       IN  /\ outcome.ok <=> parsed.ok
           /\ parsed.ok => parsed.value.type \in Types
           /\ ~outcome.ok => /\ outcome.error = parsed.error
                             /\ outcome.error.text # UnknownTypeText
                             /\ outcome.value = <<>>

\* A staking address projected to its script, in a registry where staking
\* has a byte of its own.
C15_Witness ==
  /\ Returned("pivxAddressToOutputScript")
  /\ outcome.ok
  /\ parsePivxBase58Address(call.address, network).value.type = "staking"


(***************************************************************************)
(* C16  Fall-through.  A payload of at least 23 bytes that does not start  *)
(* with the exchange prefix is matched on byte 0 alone: when byte 0 is a   *)
(* registered single-byte prefix the matcher returns a class holding that  *)
(* byte, the byte as version and payload[1:] as hash; otherwise it fails   *)
(* with the unknown-prefix error naming byte 0.                            *)
(***************************************************************************)
SingleClasses == Classes \ {"exchange"}

\* The types of the single-byte classes registered with byte b.
MatchingTypes(net, b) ==
  {ClassType(c) : c \in {d \in SingleClasses : ClassPrefix(net, d) = Num(b)}}

C16_FallThrough ==
  (Returned("extractVersion") /\ Len(call.payload) >= 23
   /\ ~StartsWith(call.payload, ExchangeBytes(network)))
    => IF call.payload[1] \in SingleBytes(network)
       THEN /\ outcome.ok
            /\ outcome.value.type \in MatchingTypes(network, call.payload[1])
            /\ outcome.value.version = Num(call.payload[1])
            /\ outcome.value.hash = Drop(call.payload, 1)
       ELSE /\ ~outcome.ok
            /\ outcome.error.text = UnknownPrefixText
            /\ DigitsValue(outcome.error.detail, 16, 0) = call.payload[1]

\* 23 bytes 01 b9 a3 ..: two bytes of the exchange prefix, then a miss, in
\* a registry whose pubKeyHash byte is 01.
C16_Witness ==
  /\ Returned("extractVersion")
  /\ network.pivxPrefixes.pubKeyHash = Num(1)
  /\ Len(call.payload) = 23
  /\ StartsWith(call.payload, <<1, 185, 163>>)
  /\ outcome.ok /\ outcome.value.type = "p2pkh"
  /\ Len(outcome.value.hash) = 22


(***************************************************************************)
(* C17  First match wins, in the order pubKeyHash, scriptHash, staking.    *)
(* In a registry where several single-byte classes hold the byte a payload *)
(* of at least 21 bytes starts with, and the payload is not matched as     *)
(* exchange, the matcher returns the earliest of these classes, with       *)
(* payload[1:] as hash.                                                    *)
(***************************************************************************)
Rank(type) ==
  CASE type = "p2pkh" -> 1
    [] type = "p2sh" -> 2
    [] type = "staking" -> 3

ExchangeMatch(p, net) ==
  Len(p) >= Len(ExchangeBytes(net)) + 20 /\ StartsWith(p, ExchangeBytes(net))

C17_FirstMatchWins ==
  (Returned("extractVersion") /\ Len(call.payload) >= 21
   /\ ~ExchangeMatch(call.payload, network)
   /\ Cardinality(MatchingTypes(network, call.payload[1])) >= 2)
    => /\ outcome.ok
       /\ outcome.value.type \in MatchingTypes(network, call.payload[1])
       /\ \A t \in MatchingTypes(network, call.payload[1]) :
            Rank(outcome.value.type) <= Rank(t)
       /\ outcome.value.hash = Drop(call.payload, 1)

\* scriptHash and staking both hold 0d: the payload is p2sh.
C17_Witness ==
  /\ Returned("extractVersion")
  /\ network = Registry(30, 13, 13, <<1, 185, 162>>)
  /\ Len(call.payload) = 21 /\ call.payload[1] = 13
  /\ outcome.ok /\ outcome.value.type = "p2sh"


(***************************************************************************)
(* C18  For a 20-byte hash, the payload encodePivxAddress hands to the     *)
(* Base58Check encoder is the bytes of the prefix in their order, then the *)
(* 20 bytes of the hash: 21 bytes for a number, L + 20 for an array of L.  *)
(***************************************************************************)
C18_PayloadLayout ==
  (Returned("encodePivxAddress") /\ Len(call.hash) = 20)
    => LET L == Len(call.version.bytes)
           payload == bs58checkDecode(outcome.value).value
       IN  /\ outcome.ok
           /\ outcome.value = bs58checkEncode(call.version.bytes \o call.hash)
           /\ Len(payload) = (IF IsNumber(call.version) THEN 21 ELSE L + 20)
           /\ \A i \in 1..L : payload[i] = call.version.bytes[i]
           /\ \A i \in 1..20 : payload[L + i] = call.hash[i]
           /\ outcome.trace[Len(outcome.trace)] = "bs58check.encode"

\* A prefix of two bytes: a payload of 22.
C18_Witness ==
  /\ Returned("encodePivxAddress")
  /\ call.version = Arr(<<1, 185>>)
  /\ call.hash = Pattern(20, 137, 34)
  /\ outcome.ok
  /\ Len(bs58checkDecode(outcome.value).value) = 22


(***************************************************************************)
(* C19  Reverse round trip.  Whatever address parsePivxBase58Address       *)
(* accepts, encodePivxAddress of the hash and the version it returned      *)
(* assembles the payload the address decodes to and returns the address;   *)
(* the payload of an accepted address has 23 bytes for exchange and 21     *)
(* for the other classes.                                                  *)
(***************************************************************************)
C19_ReverseRoundTrip ==
  (Returned("parsePivxBase58Address") /\ outcome.ok)
    => LET again == encodePivxAddress(outcome.value.hash,
                                      outcome.value.version)
       IN  /\ again.ok
           /\ assemblePayload(outcome.value.hash, outcome.value.version)
                = CallPayload
           /\ again.value = call.address
           /\ Len(CallPayload)
                = (IF outcome.value.type = "exchange" THEN 23 ELSE 21)

C19_Witness ==
  /\ Returned("parsePivxBase58Address") /\ network = pivx
  /\ outcome.ok /\ outcome.value.type = "exchange"
  /\ Len(CallPayload) = 23
  /\ encodePivxAddress(outcome.value.hash, outcome.value.version).value
       = call.address


(***************************************************************************)
(* C20  Failure precedence of parsePivxBase58Address.  A failing call      *)
(* reports one condition and returns nothing: the decoder's failure when   *)
(* the string does not decode; else, for a payload not matched as          *)
(* exchange, too-short below 21 bytes, then unknown-prefix when byte 0 is  *)
(* not registered, whatever the length, then the hash-length error; for a  *)
(* payload matched as exchange, the hash-length error.                     *)
(***************************************************************************)
C20_FailurePrecedence ==
  Returned("parsePivxBase58Address")
    => LET p == CallPayload
           expected ==
             IF ~CallDecoded.ok THEN CallDecoded.error.text
             ELSE IF ExchangeMatch(p, network)
             THEN (IF Len(p) = 23 THEN "" ELSE InvalidHashLengthText)
             ELSE IF Len(p) < 21 THEN TooShortText
             ELSE IF p[1] \notin SingleBytes(network) THEN UnknownPrefixText
             ELSE IF Len(p) # 21 THEN InvalidHashLengthText
             ELSE ""
       IN  /\ outcome.ok <=> expected = ""
           /\ ~outcome.ok => /\ outcome.error.text = expected
                             /\ outcome.value = <<>>
           /\ ~CallDecoded.ok => outcome.error = CallDecoded.error

\* 25 bytes starting with ff: unknown prefix, not a hash of 24 bytes.
C20_Witness ==
  /\ Returned("parsePivxBase58Address")
  /\ CallDecoded.ok /\ Len(CallPayload) = 25 /\ CallPayload[1] = 255
  /\ ~outcome.ok
  /\ outcome.error.text = UnknownPrefixText


====
